---- MODULE Spec2Model ----
(***************************************************************************)
(* A model of slpmodule.c, the Python binding of the SLP client library.   *)
(*                                                                         *)
(* The binding's own code (argument preparation, the three callback        *)
(* trampolines, cb_common, the py_slp_* handlers, the error table) is      *)
(* modelled from src/src/slpmodule.c.  The native request engine the       *)
(* handlers call into (SLPOpen, SLPClose, SLPFindSrvs, ...) is not part of *)
(* the source file; it is modelled after sections 4.4, 4.5 and 5 of the    *)
(* specification (the Engine* definitions).                                *)
(*                                                                         *)
(* The binding keeps no state of its own between handles: everything it    *)
(* owns hangs off one capsule or one cookie.  The model follows one handle *)
(* from py_slp_open on, with the operations issued on it.                  *)
(***************************************************************************)
EXTENDS Integers, Sequences, FiniteSets, TLC

\* ------------------------------------------------------------------ bounds
MaxOps     == 2     \* operations the model remembers at once
MaxResults == 1     \* result callbacks the engine delivers per discovery
ErrRange   == 30    \* get_slp_error_msg is applied to -ErrRange..ErrRange

\* ------------------------------------------------- SLPError (RFC 2614, slp.h)
SLP_LAST_CALL              == 1
SLP_OK                     == 0
SLP_LANGUAGE_NOT_SUPPORTED == -1
SLP_PARSE_ERROR            == -2
SLP_INVALID_REGISTRATION   == -3
SLP_SCOPE_NOT_SUPPORTED    == -4
SLP_AUTHENTICATION_ABSENT  == -6
SLP_AUTHENTICATION_FAILED  == -7
SLP_INVALID_UPDATE         == -13
SLP_REFRESH_REJECTED       == -15
SLP_NOT_IMPLEMENTED        == -17
SLP_BUFFER_OVERFLOW        == -18
SLP_NETWORK_TIMED_OUT      == -19
SLP_NETWORK_INIT_FAILED    == -20
SLP_MEMORY_ALLOC_FAILED    == -21
SLP_PARAMETER_BAD          == -22
SLP_NETWORK_ERROR          == -23
SLP_INTERNAL_SYSTEM_ERROR  == -24
SLP_HANDLE_IN_USE          == -25
SLP_TYPE_ERROR             == -26

\* The enumerators the module exports, each with the name it is exported under.
SLPErrorNames ==
  [ e \in { SLP_LANGUAGE_NOT_SUPPORTED, SLP_PARSE_ERROR, SLP_INVALID_REGISTRATION,
            SLP_SCOPE_NOT_SUPPORTED, SLP_AUTHENTICATION_ABSENT,
            SLP_AUTHENTICATION_FAILED, SLP_INVALID_UPDATE, SLP_REFRESH_REJECTED,
            SLP_NOT_IMPLEMENTED, SLP_BUFFER_OVERFLOW, SLP_NETWORK_TIMED_OUT,
            SLP_NETWORK_INIT_FAILED, SLP_MEMORY_ALLOC_FAILED, SLP_PARAMETER_BAD,
            SLP_NETWORK_ERROR, SLP_INTERNAL_SYSTEM_ERROR, SLP_HANDLE_IN_USE,
            SLP_TYPE_ERROR } |->
    CASE e = SLP_LANGUAGE_NOT_SUPPORTED -> "SLP_LANGUAGE_NOT_SUPPORTED"
      [] e = SLP_PARSE_ERROR            -> "SLP_PARSE_ERROR"
      [] e = SLP_INVALID_REGISTRATION   -> "SLP_INVALID_REGISTRATION"
      [] e = SLP_SCOPE_NOT_SUPPORTED    -> "SLP_SCOPE_NOT_SUPPORTED"
      [] e = SLP_AUTHENTICATION_ABSENT  -> "SLP_AUTHENTICATION_ABSENT"
      [] e = SLP_AUTHENTICATION_FAILED  -> "SLP_AUTHENTICATION_FAILED"
      [] e = SLP_INVALID_UPDATE         -> "SLP_INVALID_UPDATE"
      [] e = SLP_REFRESH_REJECTED       -> "SLP_REFRESH_REJECTED"
      [] e = SLP_NOT_IMPLEMENTED        -> "SLP_NOT_IMPLEMENTED"
      [] e = SLP_BUFFER_OVERFLOW        -> "SLP_BUFFER_OVERFLOW"
      [] e = SLP_NETWORK_TIMED_OUT      -> "SLP_NETWORK_TIMED_OUT"
      [] e = SLP_NETWORK_INIT_FAILED    -> "SLP_NETWORK_INIT_FAILED"
      [] e = SLP_MEMORY_ALLOC_FAILED    -> "SLP_MEMORY_ALLOC_FAILED"
      [] e = SLP_PARAMETER_BAD          -> "SLP_PARAMETER_BAD"
      [] e = SLP_NETWORK_ERROR          -> "SLP_NETWORK_ERROR"
      [] e = SLP_INTERNAL_SYSTEM_ERROR  -> "SLP_INTERNAL_SYSTEM_ERROR"
      [] e = SLP_HANDLE_IN_USE          -> "SLP_HANDLE_IN_USE"
      [] e = SLP_TYPE_ERROR             -> "SLP_TYPE_ERROR" ]

SLPErrors == DOMAIN SLPErrorNames

\* A C null pointer, and Python's None.
NULL == "NULL"
None == "None"

\* ------------------------------------------------------- get_slp_error_msg
\* static const char *err_msg[]: designated initialisers; an index that is not
\* named is a null pointer.
err_msg ==
  [ i \in 0..26 |->
    CASE i = 0  -> "SLP_OK"
      [] i = 1  -> "SLP_LANGUAGE_NOT_SUPPORTED"
      [] i = 2  -> "SLP_PARSE_ERROR"
      [] i = 3  -> "SLP_INVALID_REGISTRATION"
      [] i = 4  -> "SLP_SCOPE_NOT_SUPPORTED"
      [] i = 6  -> "SLP_AUTHENTICATION_ABSENT"
      [] i = 7  -> "SLP_AUTHENTICATION_FAILED"
      [] i = 13 -> "SLP_INVALID_UPDATE"
      [] i = 15 -> "SLP_REFRESH_REJECTED"
      [] i = 17 -> "SLP_NOT_IMPLEMENTED"
      [] i = 18 -> "SLP_BUFFER_OVERFLOW"
      [] i = 19 -> "SLP_NETWORK_TIMED_OUT"
      [] i = 20 -> "SLP_NETWORK_INIT_FAILED"
      [] i = 21 -> "SLP_MEMORY_ALLOC_FAILED"
      [] i = 22 -> "SLP_PARAMETER_BAD"
      [] i = 23 -> "SLP_NETWORK_ERROR"
      [] i = 24 -> "SLP_INTERNAL_SYSTEM_ERROR"
      [] i = 25 -> "SLP_HANDLE_IN_USE"
      [] i = 26 -> "SLP_TYPE_ERROR"
      [] OTHER  -> NULL ]

\* Faulty variant: the table is indexed one entry too far.
get_slp_error_msg_shifted(err) ==
  IF err <= 0 /\ err >= -26
    THEN (IF -err + 1 <= 26 THEN err_msg[-err + 1] ELSE NULL)
    ELSE IF err = 1 THEN "SLP_LAST_CALL" ELSE "UNKNOWN_ERROR"

get_slp_error_msg(err) ==
  IF err <= 0 /\ err >= -26
    THEN err_msg[-err]
    ELSE IF err = 1 THEN "SLP_LAST_CALL" ELSE "UNKNOWN_ERROR"


\* ------------------------------------------------------------------- state
VARIABLES
  handle,    \* the capsule made by py_slp_open and the native handle in it
  ops,       \* slot -> an operation that reached its native call
  crashed,   \* the process died, or went on in an undefined state
  props,     \* the process-wide property store SLPGetProperty reads
  pyret,     \* what the last property call returned to its Python caller
  errIn,     \* the code get_slp_error_msg is applied to
  msgOut     \* the message it returned

vars == <<handle, ops, crashed, props, pyret, errIn, msgOut>>

Slots        == 1..MaxOps
Capsule      == "capsule"         \* the object py_slp_open returned
NotAHandle   == "object"          \* any Python object that is not a capsule
Objects      == {Capsule, NotAHandle}
HSLP         == "hslp"            \* the SLPHandle SLPOpen produced
\* The callback each handler passes to the native function with the cookie.
Discovery    == {"srv_url_cb", "srv_attr_type_cb"}
Registration == {"reg_report_cb"}
\* What a Python callback can do: return an object, or raise.
PyValues     == {"True", "False", "None", "Other"}
Raise        == "Raise"
PyResults    == PyValues \cup {Raise}
\* Error codes the engine hands to a registration report (spec section 7).
AckCodes     == {SLP_OK, SLP_NETWORK_TIMED_OUT}
\* Errors of Building/Sending (spec 4.4, 4.1); HandleInUse is kept for the
\* conflict of spec 4.5.
EngineFailures == {SLP_NETWORK_INIT_FAILED, SLP_MEMORY_ALLOC_FAILED, SLP_PARAMETER_BAD}
PropNames    == {"net.slp.useScopes", "net.slp.isDA"}
PropValues   == {"DEFAULT", "true"}

\* isasync is what the caller of py_slp_open asked for, mode what SLPOpen was
\* given.
NoHandle == [st |-> "none", isasync |-> FALSE, mode |-> FALSE, ptr |-> NULL,
             refs |-> 0, closes |-> 0]
NoRet    == [fn |-> "", name |-> "", value |-> "", val |-> ""]

Pending     == [t |-> "pending", msg |-> ""]
Returned    == [t |-> "None", msg |-> ""]
Raised(exc, m) == [t |-> exc, msg |-> m]

\* An empty slot.  A slot holds an operation from its native call until the
\* operation has ended and a later operation ends or is issued: the model
\* remembers the operations in flight and the ones that ended last.
Free ==
  [engine |-> "free", cb |-> "", h |-> NULL, ctx |-> 0, open |-> FALSE,
   async |-> FALSE, busy |-> FALSE, err |-> SLP_OK, cookie |-> "none", cbref |-> 1,
   inCb |-> FALSE, cleanup |-> FALSE, args |-> <<>>, nRes |-> 0, nLast |-> 0,
   nCalls |-> 0, result |-> "", decision |-> <<>>, ret |-> Returned]

Ended(op) == op.engine \in {"completed", "cancelled", "failed"} /\ ~op.inCb
Forget(f) == [o \in Slots |-> IF Ended(f[o]) THEN Free ELSE f[o]]
FreeSlots(f) == {o \in Slots : f[o].engine = "free"}
FirstFree(f) == CHOOSE o \in FreeSlots(f) : \A q \in FreeSlots(f) : o <= q

\* ------------------------------------------------ the Python side's contexts
\* Context 0 is the main program; context o is the user callback of ops[o].
\* A context that issued an operation on a synchronous handle is suspended in
\* the native call until that operation ends.
Suspended(c) == \E o \in Slots : ops[o].ret = Pending /\ ops[o].ctx = c
Running(c)   == /\ c = 0 \/ (c \in Slots /\ ops[c].inCb)
                /\ ~Suspended(c)
Contexts     == {c \in 0..MaxOps : Running(c)}
\* The context recorded for a call whose caller does not matter afterwards.
FirstContext == IF Contexts = {} THEN 0
                ELSE CHOOSE c \in Contexts : \A d \in Contexts : c <= d

\* ------------------------------------------------------------ binding code
\* PyObject_IsTrue on the values above.
PyObject_IsTrue(v) == IF v \in {"True", "Other"} THEN 1 ELSE 0

\* Py_BuildValue's "z": a null C string becomes None.
Py_z(s) == IF s = NULL THEN None ELSE s

\* PyCapsule_IsValid(py_handle, NULL) ? PyCapsule_GetPointer(...) : NULL.
\* The pointer of a capsule is set once, by PyCapsule_New.
get_slp_handle(obj) ==
  IF obj = Capsule /\ handle.ptr # NULL
    THEN handle.ptr
    ELSE NULL

\* Faulty variant: cleanup is decided by the callback's result alone.
cb_common_result_only(result, cleanup) ==
  IF result = Raise
    THEN [rets |-> {0}, free |-> FALSE]
    ELSE [rets |-> {PyObject_IsTrue(result)}, free |-> PyObject_IsTrue(result) = 0]

\* Faulty variant: the returned decision is inverted.
cb_common_inverted(result, cleanup) ==
  IF result = Raise
    THEN [rets |-> {0}, free |-> FALSE]
    ELSE IF cleanup
      THEN [rets |-> {0, 1}, free |-> TRUE]
      ELSE [rets |-> {1 - PyObject_IsTrue(result)}, free |-> PyObject_IsTrue(result) = 0]

\* Faulty variant: the cookie is freed after every callback that returned.
cb_common_frees_always(result, cleanup) ==
  IF result = Raise
    THEN [rets |-> {0}, free |-> FALSE]
    ELSE IF cleanup
      THEN [rets |-> {0, 1}, free |-> TRUE]
      ELSE [rets |-> {PyObject_IsTrue(result)}, free |-> TRUE]

\* cb_common after PyObject_CallObject came back with `result`: the values it
\* can return and whether it releases the callback and frees the cookie.  With
\* cleanup set, ret is returned without having been assigned.
cb_common(result, cleanup) ==
  IF result = Raise
    THEN [rets |-> {0}, free |-> FALSE]
    ELSE IF cleanup
      THEN [rets |-> {0, 1}, free |-> TRUE]
      ELSE [rets |-> {PyObject_IsTrue(result)}, free |-> PyObject_IsTrue(result) = 0]

RET_OK    == 0
RET_ERROR == -1

\* slpfunc_prep_args: its return code, the exception it raised, the native
\* handle, and whether it allocated a cookie and took a reference on the
\* callback.
slpfunc_prep_args(obj, callable, mallocOk) ==
  IF get_slp_handle(obj) = NULL
    THEN [rc |-> RET_ERROR, exc |-> "TypeError", hslp |-> NULL, cookie |-> FALSE]
  ELSE IF ~callable
    THEN [rc |-> RET_ERROR, exc |-> "TypeError", hslp |-> NULL, cookie |-> FALSE]
  ELSE IF ~mallocOk
    THEN [rc |-> RET_ERROR, exc |-> "MemoryError", hslp |-> NULL, cookie |-> FALSE]
  ELSE [rc |-> RET_OK, exc |-> "", hslp |-> get_slp_handle(obj), cookie |-> TRUE]


\* --------------------------------------------- the native engine (spec 4.4)
InFlight(h) == {o \in Slots : ops[o].h = h /\ ops[o].engine = "awaiting"}

\* The native handle's state: hslp is the handle of this model or freed memory.
EngineOpen(h) == h = HSLP /\ handle.st = "open"

\* What a native operation can return when it is called on handle h.  A
\* synchronous handle with an operation in flight refuses with HandleInUse
\* (spec 4.5, 5); otherwise Building/Sending succeeds or fails (spec 4.4).  A
\* handle that was closed is freed memory: the call is refused with some code,
\* or the process leaves defined behaviour (crash, below).
EngineStart(h) ==
  IF EngineOpen(h)
    THEN IF ~handle.mode /\ InFlight(h) # {}
           THEN {SLP_HANDLE_IN_USE}
           ELSE {SLP_OK} \cup EngineFailures
    ELSE {SLP_HANDLE_IN_USE} \cup EngineFailures

\* Closing cancels every operation in flight on the handle (spec 3, 4.4): no
\* further callback is delivered; a native call that is waiting returns.
EngineCancel(h) ==
  [o \in Slots |->
     IF ops[o].h = h /\ ops[o].engine = "awaiting"
       THEN [ops[o] EXCEPT !.engine = "cancelled",
                           !.ctx = IF ops[o].inCb THEN @ ELSE 0,
                           !.ret = IF @ = Pending /\ ~ops[o].inCb THEN Returned ELSE @]
       ELSE IF Ended(ops[o]) THEN Free ELSE ops[o]]

\* The engine's state after a callback of operation op returned `decision`
\* (<<>> for a registration report, which returns nothing): a stop completes
\* the operation at once, the final callback and the report complete it.
EngineAfter(op, decision) ==
  IF op.engine # "awaiting" THEN op.engine
  ELSE IF op.cb \in Registration THEN "completed"
  ELSE IF op.nLast = 1 THEN "completed"
  ELSE IF decision = <<0>> THEN "completed"
  ELSE "awaiting"

\* ------------------------------------------------------------------ actions
Init ==
  /\ handle = NoHandle
  /\ ops = [o \in Slots |-> Free]
  /\ crashed = FALSE
  /\ props = [n \in PropNames |-> NULL]
  /\ pyret = NoRet
  /\ errIn = 0
  /\ msgOut = "unset"

\* Python code runs: the process is alive and some context is not suspended.
PyRuns == ~crashed /\ Contexts # {}

\* Faulty variant: SLPOpen is always asked for a synchronous handle.
py_slp_open_sync_only(isasync, err, capsuleOk) ==
  /\ PyRuns
  /\ handle.st = "none"
  /\ IF err = SLP_OK /\ capsuleOk
       THEN handle' =
              [st |-> "open", isasync |-> isasync, mode |-> FALSE, ptr |-> HSLP,
               refs |-> 2, closes |-> 0]
       ELSE UNCHANGED handle
  /\ UNCHANGED <<ops, crashed, props, pyret, errIn, msgOut>>

\* py_slp_open.  err is SLPOpen's result, capsuleOk whether PyCapsule_New
\* succeeded.  The capsule leaves with two references: PyCapsule_New's and the
\* one Py_BuildValue("O") adds.
py_slp_open(isasync, err, capsuleOk) ==
  /\ PyRuns
  /\ handle.st = "none"
  /\ IF err = SLP_OK /\ capsuleOk
       THEN handle' =
              [st |-> "open", isasync |-> isasync, mode |-> isasync, ptr |-> HSLP,
               refs |-> 2, closes |-> 0]
       ELSE UNCHANGED handle
  /\ UNCHANGED <<ops, crashed, props, pyret, errIn, msgOut>>

\* py_slp_close.  obj is the argument: a live capsule or another object.
\* SLPClose on a handle that was closed before works on freed memory: it may
\* crash.
py_slp_close(obj, crash) ==
  /\ PyRuns
  /\ obj = Capsule => handle.refs > 0
  /\ IF get_slp_handle(obj) # NULL
       THEN LET h == get_slp_handle(obj) IN
            /\ crash => ~EngineOpen(h)
            /\ handle' = [handle EXCEPT !.st = "closed",
                                        !.closes = @ + 1,
                                        !.refs = @ - 1]
            /\ ops' = IF InFlight(h) = {} THEN ops ELSE EngineCancel(h)
            /\ crashed' = crash
       ELSE ~crash /\ UNCHANGED <<handle, ops, crashed>>
  /\ UNCHANGED <<props, pyret, errIn, msgOut>>

\* The part the six operation handlers share: argument preparation, the native
\* call (given the callback cb and the cookie) with its result e, and the
\* return.  c is the calling context; crash says that a native call on a closed
\* (freed) handle killed the process.
Operation(cb, obj, callable, mallocOk, c, e, crash) ==
  /\ PyRuns
  /\ c \in Contexts
  /\ obj = Capsule => handle.refs > 0
  /\ LET prep == slpfunc_prep_args(obj, callable, mallocOk) IN
     IF prep.rc # RET_OK
       THEN /\ e = SLP_OK /\ ~crash /\ c = FirstContext
            /\ UNCHANGED <<ops, crashed>>
       ELSE LET h    == prep.hslp
                kept == Forget(ops)
            IN
            /\ e \in EngineStart(h)
            /\ (e # SLP_OK \/ handle.mode) => c = FirstContext
            /\ crash => ~EngineOpen(h) /\ e = SLP_PARAMETER_BAD
            /\ crashed' = crash
            /\ IF crash THEN UNCHANGED ops
               ELSE /\ FreeSlots(kept) # {}
                    /\ ops' = [kept EXCEPT ![FirstFree(kept)] =
                         [engine |-> IF e = SLP_OK THEN "awaiting" ELSE "failed",
                          cb |-> cb, h |-> h,
                          ctx |-> IF e = SLP_OK /\ ~handle.mode THEN c ELSE 0,
                          open |-> EngineOpen(h),
                          async |-> handle.isasync,
                          busy |-> InFlight(h) # {},
                          err |-> e,
                          cookie |-> "allocated", cbref |-> 2,
                          inCb |-> FALSE, cleanup |-> FALSE, args |-> <<>>,
                          nRes |-> 0, nLast |-> 0, nCalls |-> 0,
                          result |-> "", decision |-> <<>>,
                          ret |-> IF e # SLP_OK
                                    THEN Raised("RuntimeError", get_slp_error_msg(e))
                                    ELSE IF handle.mode THEN Returned ELSE Pending]]
  /\ UNCHANGED <<handle, props, pyret, errIn, msgOut>>

py_slp_findsrvs(obj, callable, mallocOk, c, e, crash) ==
  Operation("srv_url_cb", obj, callable, mallocOk, c, e, crash)

py_slp_findsrvtypes(obj, callable, mallocOk, c, e, crash) ==
  Operation("srv_attr_type_cb", obj, callable, mallocOk, c, e, crash)

py_slp_findattrs(obj, callable, mallocOk, c, e, crash) ==
  Operation("srv_attr_type_cb", obj, callable, mallocOk, c, e, crash)

py_slp_reg(obj, callable, mallocOk, c, e, crash) ==
  Operation("reg_report_cb", obj, callable, mallocOk, c, e, crash)

py_slp_dereg(obj, callable, mallocOk, c, e, crash) ==
  Operation("reg_report_cb", obj, callable, mallocOk, c, e, crash)

py_slp_delattrs(obj, callable, mallocOk, c, e, crash) ==
  Operation("reg_report_cb", obj, callable, mallocOk, c, e, crash)

\* ------------------------------------------------- the callback trampolines
\* Each builds the argument tuple and enters the Python callback through
\* cb_common; the operation's record with the call in progress.
PyCookie == "py_cookie"

\* Faulty variant: the error code is replaced by SLP_OK.
srv_url_cb_ok_code(op, srvurl, lifetime, errcode) ==
  [op EXCEPT !.args = <<Capsule, Py_z(srvurl), lifetime, SLP_OK, PyCookie>>,
             !.cleanup = FALSE, !.inCb = TRUE, !.nCalls = @ + 1,
             !.result = "", !.decision = <<>>]

srv_url_cb(op, srvurl, lifetime, errcode) ==
  [op EXCEPT !.args = <<Capsule, Py_z(srvurl), lifetime, errcode, PyCookie>>,
             !.cleanup = FALSE, !.inCb = TRUE, !.nCalls = @ + 1,
             !.result = "", !.decision = <<>>]

srv_attr_type_cb(op, values, errcode) ==
  [op EXCEPT !.args = <<Capsule, Py_z(values), errcode, PyCookie>>,
             !.cleanup = FALSE, !.inCb = TRUE, !.nCalls = @ + 1,
             !.result = "", !.decision = <<>>]

reg_report_cb(op, errcode) ==
  [op EXCEPT !.args = <<Capsule, errcode, PyCookie>>,
             !.cleanup = TRUE, !.inCb = TRUE, !.nCalls = @ + 1,
             !.result = "", !.decision = <<>>]

\* The engine's call of a discovery callback with a payload and a code.
DiscoveryCallback(op, payload, errcode) ==
  IF op.cb = "srv_url_cb"
    THEN srv_url_cb(op, payload, IF payload = NULL THEN 0 ELSE 60, errcode)
    ELSE srv_attr_type_cb(op, payload, errcode)

\* The Python callback of operation o in f comes back with `result`; cb_common
\* finishes and returns r to the engine, which moves on.  The operations after
\* that.
CallbackExit(f, o, result, r) ==
  LET cb  == cb_common(result, f[o].cleanup)
      dec == IF f[o].cb \in Discovery THEN <<r>> ELSE <<>>
      eng == EngineAfter(f[o], dec)
      new == [f[o] EXCEPT
                !.inCb = FALSE,
                !.result = result,
                !.decision = dec,
                !.cookie = IF ~cb.free THEN @
                           ELSE IF @ = "allocated" THEN "freed" ELSE "freed twice",
                !.cbref = IF cb.free THEN @ - 1 ELSE @,
                !.engine = eng,
                !.ctx = IF eng # "awaiting" THEN 0 ELSE @,
                !.ret = IF @ = Pending /\ eng # "awaiting" THEN Returned ELSE @]
  IN [(IF Ended(new) THEN Forget(f) ELSE f) EXCEPT ![o] = new]

\* The engine invokes the trampoline of operation o, `entered` being the
\* operation's record inside the callback.  On a synchronous handle the
\* callback runs inside the caller's native call and may itself call into the
\* module before it returns (CallbackReturn).  On an asynchronous handle it runs
\* in the engine's own context, where nothing of the binding is shared between
\* two cookies: the trampoline is one step, returning r for `result`.
Invoke(o, entered, result, r) ==
  IF handle.mode
    THEN /\ r \in cb_common(result, entered.cleanup).rets
         /\ ops' = CallbackExit([ops EXCEPT ![o] = entered], o, result, r)
    ELSE /\ result = "True" /\ r = 1
         /\ ops' = [ops EXCEPT ![o] = entered]

CanDeliver(o) ==
  /\ ~crashed
  /\ ops[o].engine = "awaiting"
  /\ ~ops[o].inCb
  /\ ops[o].nLast = 0

\* AwaitingResponses: a response arrives and is delivered (spec 4.4).
EngineDeliverResult(o, result, r) ==
  /\ CanDeliver(o)
  /\ ops[o].cb \in Discovery
  /\ ops[o].nRes < MaxResults
  /\ Invoke(o, [DiscoveryCallback(ops[o], "response", SLP_OK) EXCEPT !.nRes = @ + 1],
            result, r)
  /\ UNCHANGED <<handle, crashed, props, pyret, errIn, msgOut>>

\* The timeout elapses: the final callback with the LastCall marker (spec 4.4).
EngineDeliverLastCall(o, result, r) ==
  /\ CanDeliver(o)
  /\ ops[o].cb \in Discovery
  /\ Invoke(o, [DiscoveryCallback(ops[o], NULL, SLP_LAST_CALL) EXCEPT !.nLast = 1],
            result, r)
  /\ UNCHANGED <<handle, crashed, props, pyret, errIn, msgOut>>

\* Registration family: the one delivery of the acknowledgement (spec 4.4).
EngineDeliverReport(o, code, result, r) ==
  /\ CanDeliver(o)
  /\ ops[o].cb \in Registration
  /\ Invoke(o, [reg_report_cb(ops[o], code) EXCEPT !.nLast = 1], result, r)
  /\ UNCHANGED <<handle, crashed, props, pyret, errIn, msgOut>>

\* The Python callback of operation o, running on a synchronous handle, comes
\* back with `result`.
CallbackReturn(o, result, r) ==
  /\ ~crashed
  /\ ops[o].inCb
  /\ ~Suspended(o)
  /\ r \in cb_common(result, ops[o].cleanup).rets
  /\ ops' = CallbackExit(ops, o, result, r)
  /\ UNCHANGED <<handle, crashed, props, pyret, errIn, msgOut>>

\* ----------------------------------------------------------- specification
\* The cases slpfunc_prep_args tells apart: <<obj, callable, mallocOk>>.
PrepInputs ==
  { <<NotAHandle, TRUE, TRUE>>, <<Capsule, FALSE, TRUE>>, <<Capsule, TRUE, FALSE>>,
    <<Capsule, TRUE, TRUE>> }

\* What a native call is taken to return: SLP_OK or one of the failures.
NativeResults == {SLP_OK, SLP_HANDLE_IN_USE} \cup EngineFailures

Next ==
  \/ \E a \in BOOLEAN, e \in {SLP_OK, SLP_NETWORK_INIT_FAILED}, ok \in BOOLEAN :
       py_slp_open(a, e, ok)
  \/ \E obj \in Objects, crash \in BOOLEAN : py_slp_close(obj, crash)
  \/ \E inp \in PrepInputs, c \in Contexts, e \in NativeResults, crash \in BOOLEAN :
       py_slp_findsrvs(inp[1], inp[2], inp[3], c, e, crash)
  \/ \E inp \in PrepInputs, c \in Contexts, e \in NativeResults, crash \in BOOLEAN :
       py_slp_findsrvtypes(inp[1], inp[2], inp[3], c, e, crash)
  \/ \E inp \in PrepInputs, c \in Contexts, e \in NativeResults, crash \in BOOLEAN :
       py_slp_findattrs(inp[1], inp[2], inp[3], c, e, crash)
  \/ \E inp \in PrepInputs, c \in Contexts, e \in NativeResults, crash \in BOOLEAN :
       py_slp_reg(inp[1], inp[2], inp[3], c, e, crash)
  \/ \E inp \in PrepInputs, c \in Contexts, e \in NativeResults, crash \in BOOLEAN :
       py_slp_dereg(inp[1], inp[2], inp[3], c, e, crash)
  \/ \E inp \in PrepInputs, c \in Contexts, e \in NativeResults, crash \in BOOLEAN :
       py_slp_delattrs(inp[1], inp[2], inp[3], c, e, crash)
  \/ \E o \in Slots, result \in PyResults, r \in {0, 1} :
       EngineDeliverResult(o, result, r)
  \/ \E o \in Slots, result \in PyResults, r \in {0, 1} :
       EngineDeliverLastCall(o, result, r)
  \/ \E o \in Slots, code \in AckCodes, result \in PyResults, r \in {0, 1} :
       EngineDeliverReport(o, code, result, r)
  \/ \E o \in Slots, result \in PyResults, r \in {0, 1} :
       CallbackReturn(o, result, r)

Spec == Init /\ [][Next]_vars

\* ------------------------------------------------------ properties (spec 4.7)
\* The native property store.  SLPGetProperty reads it; SLPSetProperty leaves it
\* as it is (spec 4.7; "No-op" in py_slp_set_property).
SLPGetProperty(p, name) == IF name \in DOMAIN p THEN p[name] ELSE NULL
SLPSetProperty(p, name, value) == p

\* An argument that is neither a string nor None.
NotAString == "int"
PyStrings(S) == S \cup {None, NotAString}

\* py_slp_get_property: "s" takes a string only.
py_slp_get_property(name) ==
  /\ ~crashed
  /\ pyret' = [fn |-> "SLPGetProperty", name |-> name, value |-> "",
               val |-> IF name \in {None, NotAString}
                         THEN "TypeError"
                         ELSE Py_z(SLPGetProperty(props, name))]
  /\ UNCHANGED <<handle, ops, crashed, props, errIn, msgOut>>

\* Faulty variant: the value is stored.
py_slp_set_property_storing(name, value) ==
  /\ ~crashed
  /\ IF NotAString \in {name, value}
       THEN /\ pyret' = [fn |-> "SLPSetProperty", name |-> name, value |-> value,
                         val |-> "TypeError"]
            /\ UNCHANGED props
       ELSE /\ props' = IF name \in DOMAIN props /\ value # None
                          THEN [props EXCEPT ![name] = value]
                          ELSE props
            /\ pyret' = [fn |-> "SLPSetProperty", name |-> name, value |-> value,
                         val |-> None]
  /\ UNCHANGED <<handle, ops, crashed, errIn, msgOut>>

\* py_slp_set_property: "zz" takes strings or None; SLPSetProperty is called and
\* None is returned.
py_slp_set_property(name, value) ==
  /\ ~crashed
  /\ IF NotAString \in {name, value}
       THEN /\ pyret' = [fn |-> "SLPSetProperty", name |-> name, value |-> value,
                         val |-> "TypeError"]
            /\ UNCHANGED props
       ELSE /\ props' = SLPSetProperty(props, name, value)
            /\ pyret' = [fn |-> "SLPSetProperty", name |-> name, value |-> value,
                         val |-> None]
  /\ UNCHANGED <<handle, ops, crashed, errIn, msgOut>>

\* The property handlers over every content of the store.
InitProp ==
  /\ handle = NoHandle
  /\ ops = [o \in Slots |-> Free]
  /\ crashed = FALSE
  /\ props \in [PropNames -> PropValues \cup {NULL}]
  /\ pyret = NoRet
  /\ errIn = 0
  /\ msgOut = "unset"

NextProp ==
  \/ \E name \in PyStrings(PropNames) : py_slp_get_property(name)
  \/ \E name \in PyStrings(PropNames), value \in PyStrings(PropValues) :
       py_slp_set_property(name, value)

SpecProp == InitProp /\ [][NextProp]_vars

\* ------------------------------------------------------- error translation
\* get_slp_error_msg applied to every code of -ErrRange..ErrRange, as the
\* handlers apply it to the result of a native call before PyErr_SetString.
InitErr ==
  /\ handle = NoHandle
  /\ ops = [o \in Slots |-> Free]
  /\ crashed = FALSE
  /\ props = [n \in PropNames |-> NULL]
  /\ pyret = NoRet
  /\ errIn \in -ErrRange..ErrRange
  /\ msgOut = "unset"

ErrorMessage ==
  /\ msgOut = "unset"
  /\ msgOut' = get_slp_error_msg(errIn)
  /\ UNCHANGED <<handle, ops, crashed, props, pyret, errIn>>

NextErr == ErrorMessage

SpecErr == InitErr /\ [][NextErr]_vars

\* ------------------------------------------------------------- properties
\* C1: once the report callback of a registration-family operation (SLPReg,
\* SLPDereg, SLPDelAttrs) has returned a value - true, false, None or anything
\* else - the cookie has been freed, exactly once, and the reference taken on
\* the user callback has been released.
C1_RegCleanup ==
  \A o \in Slots :
    (/\ ops[o].cb \in Registration
     /\ ops[o].nCalls >= 1
     /\ ~ops[o].inCb
     /\ ops[o].result \in PyValues)
    => ops[o].cookie = "freed" /\ ops[o].cbref = 1

\* A report callback returned True and the cookie is gone.
C1_Witness ==
  \E o \in Slots :
    /\ ops[o].cb \in Registration
    /\ ops[o].nCalls = 1 /\ ~ops[o].inCb
    /\ ops[o].result = "True"
    /\ ops[o].cookie = "freed" /\ ops[o].cbref = 1

\* C2: for a discovery operation the decision handed to the engine is the
\* truth value of the user callback's result (1 = more for a true result,
\* 0 = stop for a false one); after a stop the operation is over - completed,
\* unless a close had cancelled it before the callback returned - and its
\* user callback is not invoked again.
C2_Decision ==
  /\ [](\A o \in Slots :
          (/\ ops[o].cb \in Discovery
           /\ ops[o].nCalls >= 1
           /\ ~ops[o].inCb
           /\ ops[o].result \in PyValues)
          => /\ ops[o].decision =
                  <<IF ops[o].result \in {"False", "None"} THEN 0 ELSE 1>>
             /\ ops[o].decision = <<0>> => ops[o].engine \in {"completed", "cancelled"}
             /\ (ops[o].decision = <<0>> /\ handle.closes = 0)
                  => ops[o].engine = "completed")
  /\ [][\A o \in Slots :
          (ops[o].cb \in Discovery /\ ~ops[o].inCb /\ ops[o].decision = <<0>>)
          => ~ops'[o].inCb /\ ops'[o].nCalls <= ops[o].nCalls]_vars

\* A result callback returned None: stop, and the operation completed on it.
C2_Witness ==
  \E o \in Slots :
    /\ ops[o].cb \in Discovery
    /\ ops[o].result = "None" /\ ops[o].decision = <<0>>
    /\ ops[o].nRes = 1 /\ ops[o].nLast = 0
    /\ ops[o].engine = "completed"

C4_HandleInUse ==
  \A o \in Slots :
    (ops[o].engine # "free" /\ ops[o].open /\ ops[o].busy) =>
      IF ops[o].async
        THEN /\ ops[o].err # SLP_HANDLE_IN_USE
             /\ ops[o].err = SLP_OK => ops[o].ret = Returned
        ELSE /\ ops[o].err = SLP_HANDLE_IN_USE
             /\ ops[o].engine = "failed"
             /\ ops[o].ret = Raised("RuntimeError", "SLP_HANDLE_IN_USE")
             /\ ops[o].nCalls = 0 /\ ~ops[o].inCb

\* Two operations are in flight on an asynchronous handle, the second one
\* issued while the first was.
C4_Witness ==
  \E o, q \in Slots :
    /\ o # q
    /\ ops[o].engine = "awaiting" /\ ops[q].engine = "awaiting"
    /\ ops[q].async /\ ops[q].busy /\ ops[q].open

\* C5 as stated: an operation that close cancelled has no callback running
\* or to come, its cookie is freed and its callback reference released.
C5_CancelReleases ==
  \A o \in Slots :
    (ops[o].engine = "cancelled" /\ ~ops[o].inCb)
    => ops[o].cookie = "freed" /\ ops[o].cbref = 1

\* C6 as stated: the native close is invoked at most once per handle.
C6_CloseOnce == handle.closes <= 1

\* C7: an operation whose native call returned a code other than SLP_OK
\* raised RuntimeError named after the code, returned no value, and its user
\* callback is not invoked.
C7_NativeError ==
  \A o \in Slots :
    (ops[o].engine # "free" /\ ops[o].err # SLP_OK)
    => /\ ops[o].err \in SLPErrors
       /\ ops[o].ret = Raised("RuntimeError", SLPErrorNames[ops[o].err])
       /\ ops[o].engine = "failed"
       /\ ops[o].nCalls = 0 /\ ~ops[o].inCb

\* SLPReg failed with SLP_NETWORK_INIT_FAILED.
C7_Witness ==
  \E o \in Slots :
    /\ ops[o].cb \in Registration
    /\ ops[o].err = SLP_NETWORK_INIT_FAILED
    /\ ops[o].ret = Raised("RuntimeError", "SLP_NETWORK_INIT_FAILED")
    /\ ops[o].nCalls = 0

\* C8: setting a property changes nothing: the call returns None, the store
\* is what it was, so a get returns what it returned before, and no other
\* state changes.
C8_SetNoOp ==
  [][/\ props' = props
     /\ UNCHANGED <<handle, ops, crashed, errIn, msgOut>>
     /\ (pyret'.fn = "SLPSetProperty" /\ NotAString \notin {pyret'.name, pyret'.value})
          => pyret'.val = None
     /\ (pyret'.fn = "SLPGetProperty" /\ pyret'.name \in PropNames)
          => pyret'.val = Py_z(props[pyret'.name])]_vars

\* A property was set to a value it does not have, and it still does not.
C8_Witness ==
  /\ pyret.fn = "SLPSetProperty"
  /\ pyret.name \in PropNames /\ pyret.value \in PropValues
  /\ pyret.val = None
  /\ props[pyret.name] # pyret.value

\* C9 as stated: the translation is total and never null: a named code gives
\* its name, 1 gives "SLP_LAST_CALL", every other code, the gaps of the range
\* included, gives "UNKNOWN_ERROR".
C9_Total ==
  msgOut # "unset" =>
    /\ msgOut # NULL
    /\ msgOut = IF errIn = SLP_OK THEN "SLP_OK"
                ELSE IF errIn \in SLPErrors THEN SLPErrorNames[errIn]
                ELSE IF errIn = SLP_LAST_CALL THEN "SLP_LAST_CALL"
                ELSE "UNKNOWN_ERROR"

\* C10 as stated: a discovery operation that completed has its cookie freed
\* and its callback reference released, whatever its callbacks returned.
C10_DiscoveryCleanup ==
  \A o \in Slots :
    (ops[o].cb \in Discovery /\ ops[o].engine = "completed" /\ ~ops[o].inCb)
    => ops[o].cookie = "freed" /\ ops[o].cbref = 1

\* C11 as stated: a native function is only ever invoked with a handle that
\* is open: every operation that got as far as its native call, with a
\* cookie allocated and a reference taken on the callback, found the handle
\* open.
C11_OpenHandleOnly ==
  \A o \in Slots :
    (ops[o].engine # "free" /\ ops[o].cookie # "none") => ops[o].open

\* C12: the cookie of an operation is freed at most once, and no callback
\* of the operation is invoked once it has been freed (the trampoline reads
\* the cookie): while a callback runs the cookie is allocated, and after a
\* discovery callback returned false, which frees it, no further callback,
\* the final one with SLP_LAST_CALL included, is delivered.
C12_NoUseAfterFree ==
  /\ [](\A o \in Slots :
          /\ ops[o].cookie # "freed twice"
          /\ ops[o].inCb => ops[o].cookie = "allocated"
          /\ (ops[o].cb \in Discovery /\ ops[o].cookie = "freed")
               => ops[o].decision = <<0>> /\ ops[o].engine # "awaiting")
  /\ [][\A o \in Slots :
          ops[o].cookie = "freed"
          => ~ops'[o].inCb /\ ops'[o].nCalls <= ops[o].nCalls]_vars

\* SLPFindSrvs got a response, its callback returned False, the cookie was
\* freed, and the operation is over without the final callback.
C12_Witness ==
  \E o \in Slots :
    /\ ops[o].cb = "srv_url_cb"
    /\ ops[o].result = "False" /\ ~ops[o].inCb
    /\ ops[o].cookie = "freed" /\ ops[o].cbref = 1
    /\ ops[o].nRes = 1 /\ ops[o].nLast = 0 /\ ops[o].nCalls = 1
    /\ ops[o].engine \in {"completed", "cancelled"}

\* C13 as stated: an operation whose native call returned an error has,
\* when the error is raised, its cookie freed and the callback's reference
\* count back at what it was before the call.
C13_FailureReleases ==
  \A o \in Slots :
    (ops[o].engine = "failed" /\ ops[o].err # SLP_OK)
    => ops[o].cookie = "freed" /\ ops[o].cbref = 1

\* C14 as stated: after a user callback raised, the decision handed to the
\* engine of a discovery operation is stop, and the cookie has been freed and
\* the callback reference released, for discovery and registration alike.
C14_RaiseCleansUp ==
  \A o \in Slots :
    (ops[o].result = Raise /\ ~ops[o].inCb)
    => /\ ops[o].cb \in Discovery => ops[o].decision = <<0>>
       /\ ops[o].cookie = "freed" /\ ops[o].cbref = 1

====
